---------------------------- MODULE Spec2Model ----------------------------
(***************************************************************************)
(* Record recognition and normalization of three plaso plugins: the zsh    *)
(* extended-history parser, the vsftpd text plugin and the Android native  *)
(* downloads SQLite plugin.  Text is a sequence of one-character strings,  *)
(* so that the grammars and the verification patterns are computed on the  *)
(* characters of a unit, as pyparsing and re compute them.                 *)
(***************************************************************************)
EXTENDS Integers, Sequences, FiniteSets, TLC

(* ------------------------------ bounds -------------------------------- *)

\* Most lines of a text artifact (zsh history, vsftpd log).
MaxLines == 3

\* Most rows the downloads query yields.
MaxRows == 2

\* Most calls of the format detector on one source before the scan.
MaxDetectCalls == 2

(* --------------------------- character classes ------------------------ *)

NL == "\n"

\* pyparsing.nums
Nums == {"0", "1", "2", "3", "4", "5", "6", "7", "8", "9"}

LowerCase ==
  {"a", "b", "c", "d", "e", "f", "g", "h", "i", "j", "k", "l", "m",
   "n", "o", "p", "q", "r", "s", "t", "u", "v", "w", "x", "y", "z"}

UpperCase ==
  {"A", "B", "C", "D", "E", "F", "G", "H", "I", "J", "K", "L", "M",
   "N", "O", "P", "Q", "R", "S", "T", "U", "V", "W", "X", "Y", "Z"}

\* pyparsing.alphas
Alphas == LowerCase \cup UpperCase

\* The characters pyparsing skips before an element (its default whitespace).
DefaultWhitespace == {" ", "\t", NL, "\r"}

\* The characters pyparsing.LineEnd skips: the default ones without the newline.
LineEndWhitespace == {" ", "\t", "\r"}

\* The characters the pattern \s matches on text.
RegexSpace == {" ", "\t", NL, "\r", "\f"}

DigitValue(c) ==
  CASE c = "0" -> 0 [] c = "1" -> 1 [] c = "2" -> 2 [] c = "3" -> 3
    [] c = "4" -> 4 [] c = "5" -> 5 [] c = "6" -> 6 [] c = "7" -> 7
    [] c = "8" -> 8 [] c = "9" -> 9

\* str.lower() on one character.
LowerChar(c) ==
  CASE c = "A" -> "a" [] c = "B" -> "b" [] c = "C" -> "c" [] c = "D" -> "d"
    [] c = "E" -> "e" [] c = "F" -> "f" [] c = "G" -> "g" [] c = "H" -> "h"
    [] c = "I" -> "i" [] c = "J" -> "j" [] c = "K" -> "k" [] c = "L" -> "l"
    [] c = "M" -> "m" [] c = "N" -> "n" [] c = "O" -> "o" [] c = "P" -> "p"
    [] c = "Q" -> "q" [] c = "R" -> "r" [] c = "S" -> "s" [] c = "T" -> "t"
    [] c = "U" -> "u" [] c = "V" -> "v" [] c = "W" -> "w" [] c = "X" -> "x"
    [] c = "Y" -> "y" [] c = "Z" -> "z" [] OTHER -> c

\* str.lower()
Lower(s) == [i \in 1..Len(s) |-> LowerChar(s[i])]

\* s[i..j], empty when j < i.
Slice(s, i, j) == SubSeq(s, i, j)

\* text_parser.PyParseIntCast: the decimal value of a run of digits.
RECURSIVE PyParseIntCast(_)
PyParseIntCast(ds) ==
  IF ds = <<>> THEN 0
  ELSE 10 * PyParseIntCast(Slice(ds, 1, Len(ds) - 1)) + DigitValue(ds[Len(ds)])

(* ---------------------------- matchers -------------------------------- *)

\* The first position at or after i that holds no character of ws
\* (Len(s) + 1 when the rest of s is all in ws): the skip before an element.
SkipChars(s, i, ws) ==
  CHOOSE j \in i..(Len(s) + 1) :
    /\ \A k \in i..(j - 1) : s[k] \in ws
    /\ (j = Len(s) + 1 \/ s[j] \notin ws)

\* The end (exclusive) of the longest run of characters of cs from i, at most
\* max characters long; max = 0 is pyparsing's "no upper limit".
RunEnd(s, i, cs, max) ==
  CHOOSE j \in i..(Len(s) + 1) :
    /\ (max = 0 \/ j - i <= max)
    /\ \A k \in i..(j - 1) : s[k] \in cs
    /\ ((max # 0 /\ j - i = max) \/ j = Len(s) + 1 \/ s[j] \notin cs)

\* A match result: ok, the position after the match, and the token.
Match(end, token) == [ok |-> TRUE, end |-> end, token |-> token]
NoMatch == [ok |-> FALSE, end |-> 0, token |-> <<>>]

\* pyparsing.Word(cs, min=min, max=max) at i, after the whitespace skip:
\* a run of min to max characters of cs.
Word(s, i, cs, min, max) ==
  LET b == SkipChars(s, i, DefaultWhitespace)
      e == RunEnd(s, b, cs, max)
  IN IF e - b >= min THEN Match(e, Slice(s, b, e - 1)) ELSE NoMatch

\* pyparsing.Literal(c) of one character at i, after the whitespace skip.
Literal(s, i, c) ==
  LET b == SkipChars(s, i, DefaultWhitespace)
  IN IF b <= Len(s) /\ s[b] = c THEN Match(b + 1, <<c>>) ELSE NoMatch

\* Whether pattern p occurs in s at position i.
OccursAt(s, i, p) ==
  /\ i + Len(p) - 1 <= Len(s)
  /\ \A k \in 1..Len(p) : s[i + k - 1] = p[k]

\* The Python test `p in s` on text.
Contains(s, p) == \E i \in 1..(Len(s) + 1) : OccursAt(s, i, p)

(* ------------------------- zsh extended history ----------------------- *)

\* The pattern :\s\d+:\d+; matched at position i of s.
RecordStartAt(s, i) ==
  /\ i + 1 <= Len(s)
  /\ s[i] = ":"
  /\ s[i + 1] \in RegexSpace
  /\ LET d1 == RunEnd(s, i + 2, Nums, 0)
     IN /\ d1 > i + 2
        /\ d1 <= Len(s)
        /\ s[d1] = ":"
        /\ LET d2 == RunEnd(s, d1 + 1, Nums, 0)
           IN /\ d2 > d1 + 1
              /\ d2 <= Len(s)
              /\ s[d2] = ";"

\* The verification pattern with the whitespace after the colon optional,
\* ^:\s?\d+:\d+; (a variant of _VERIFICATION_REGEX).
VerificationRegexOptionalSpace(s) ==
  \/ RecordStartAt(s, 1)
  \/ (s # <<>> /\ s[1] = ":" /\ RecordStartAt(<<":", " ">> \o Slice(s, 2, Len(s)), 1))

\* _VERIFICATION_REGEX.match(text): ^:\s\d+:\d+; at the start of the text.
VERIFICATION_REGEX(s) == RecordStartAt(s, 1)

\* The lookahead (?=($|\n:\s\d+:\d+;)) at position j: the end of the text, the
\* newline that ends the text, or a newline followed by the start of a record.
CommandBoundaryAt(s, j) ==
  \/ j = Len(s) + 1
  \/ (j = Len(s) /\ s[j] = NL)
  \/ (j <= Len(s) /\ s[j] = NL /\ RecordStartAt(s, j + 1))

\* _COMMAND: the pattern .+?(?=($|\n:\s\d+:\d+;)) with DOTALL at i, after the
\* whitespace skip: the shortest run of one or more characters that ends at a
\* boundary.
COMMAND(s, i) ==
  LET b == SkipChars(s, i, DefaultWhitespace)
  IN IF b > Len(s) THEN NoMatch
     ELSE LET e == CHOOSE j \in (b + 1)..(Len(s) + 1) :
                     /\ CommandBoundaryAt(s, j)
                     /\ \A k \in (b + 1)..(j - 1) : ~CommandBoundaryAt(s, k)
          IN Match(e, Slice(s, b, e - 1))

\* _INTEGER: pyparsing.Word(pyparsing.nums) with the PyParseIntCast action.
INTEGER(s, i) == Word(s, i, Nums, 1, 0)

\* pyparsing.LineEnd at i: a newline or the end of the text, after its own
\* whitespace skip.
LineEnd(s, i) ==
  LET b == SkipChars(s, i, LineEndWhitespace)
  IN IF b > Len(s) THEN Match(Len(s) + 1, <<>>)
     ELSE IF s[b] = NL THEN Match(b + 1, <<NL>>) ELSE NoMatch

\* A grammar's failure, naming the field whose matcher rejected.
Rejected(field) == [ok |-> FALSE, field |-> field]

\* _LINE_GRAMMAR applied at position i: the elements in order, the first
\* rejection aborting the record.
LINE_GRAMMAR(s, i) ==
  LET c1 == Literal(s, i, ":") IN
  IF ~c1.ok THEN Rejected("colon") ELSE
  LET ts == INTEGER(s, c1.end) IN
  IF ~ts.ok THEN Rejected("timestamp") ELSE
  LET c2 == Literal(s, ts.end, ":") IN
  IF ~c2.ok THEN Rejected("colon") ELSE
  LET el == INTEGER(s, c2.end) IN
  IF ~el.ok THEN Rejected("elapsed_seconds") ELSE
  LET sc == Literal(s, el.end, ";") IN
  IF ~sc.ok THEN Rejected("semicolon") ELSE
  LET cmd == COMMAND(s, sc.end) IN
  IF ~cmd.ok THEN Rejected("command") ELSE
  LET le == LineEnd(s, cmd.end) IN
  IF ~le.ok THEN Rejected("line_end") ELSE
  [ok |-> TRUE, field |-> "", end |-> le.end,
   timestamp |-> PyParseIntCast(ts.token),
   elapsed_seconds |-> PyParseIntCast(el.token),
   command |-> cmd.token]

\* _SUPPORTED_KEYS of the zsh parser.
ZSH_SUPPORTED_KEYS == {"command"}

\* dfdatetime PosixTime(timestamp=t): the epoch seconds, kept as given.
PosixTime(t) == [type |-> "PosixTime", timestamp |-> t, is_local_time |-> FALSE]

(* -------------------------------- vsftpd ------------------------------ *)

\* _MONTH_DICT: the month number of each lower-case three-letter month name.
MONTH_DICT ==
  { << <<"j", "a", "n">>, 1 >>,  << <<"f", "e", "b">>, 2 >>,
    << <<"m", "a", "r">>, 3 >>,  << <<"a", "p", "r">>, 4 >>,
    << <<"m", "a", "y">>, 5 >>,  << <<"j", "u", "n">>, 6 >>,
    << <<"j", "u", "l">>, 7 >>,  << <<"a", "u", "g">>, 8 >>,
    << <<"s", "e", "p">>, 9 >>,  << <<"o", "c", "t">>, 10 >>,
    << <<"n", "o", "v">>, 11 >>, << <<"d", "e", "c">>, 12 >> }

\* dict.get(key, default) on a set of key and value pairs.
DictGet(dict, key, default) ==
  IF \E kv \in dict : kv[1] = key
  THEN (CHOOSE kv \in dict : kv[1] = key)[2]
  ELSE default

\* The month of a month name that is no key of _MONTH_DICT.
MonthDefault == 0

ONE_OR_TWO_DIGITS(s, i) == Word(s, i, Nums, 1, 2)
TWO_DIGITS(s, i) == Word(s, i, Nums, 2, 2)
FOUR_DIGITS(s, i) == Word(s, i, Nums, 4, 4)
THREE_LETTERS(s, i) == Word(s, i, Alphas, 3, 3)

\* _DATE_TIME: weekday, month name, day, hours : minutes : seconds, year; the
\* group holds the seven tokens, the numbers cast to integers.
DATE_TIME(s, i) ==
  LET wd == THREE_LETTERS(s, i) IN
  IF ~wd.ok THEN Rejected("weekday") ELSE
  LET mo == THREE_LETTERS(s, wd.end) IN
  IF ~mo.ok THEN Rejected("month") ELSE
  LET dd == ONE_OR_TWO_DIGITS(s, mo.end) IN
  IF ~dd.ok THEN Rejected("day_of_month") ELSE
  LET hh == TWO_DIGITS(s, dd.end) IN
  IF ~hh.ok THEN Rejected("hours") ELSE
  LET c1 == Literal(s, hh.end, ":") IN
  IF ~c1.ok THEN Rejected("colon") ELSE
  LET mi == TWO_DIGITS(s, c1.end) IN
  IF ~mi.ok THEN Rejected("minutes") ELSE
  LET c2 == Literal(s, mi.end, ":") IN
  IF ~c2.ok THEN Rejected("colon") ELSE
  LET ss == TWO_DIGITS(s, c2.end) IN
  IF ~ss.ok THEN Rejected("seconds") ELSE
  LET yy == FOUR_DIGITS(s, ss.end) IN
  IF ~yy.ok THEN Rejected("year") ELSE
  [ok |-> TRUE, field |-> "", end |-> yy.end,
   group |-> [weekday |-> wd.token, month_string |-> mo.token,
              day_of_month |-> PyParseIntCast(dd.token),
              hours |-> PyParseIntCast(hh.token),
              minutes |-> PyParseIntCast(mi.token),
              seconds |-> PyParseIntCast(ss.token),
              year |-> PyParseIntCast(yy.token)]]

\* pyparsing.SkipTo(pyparsing.lineEnd) at i, after the whitespace skip: the
\* text up to the first newline or the end.
SkipToLineEnd(s, i) ==
  LET b == SkipChars(s, i, DefaultWhitespace)
      e == CHOOSE j \in b..(Len(s) + 1) :
             /\ (j = Len(s) + 1 \/ s[j] = NL)
             /\ \A k \in b..(j - 1) : s[k] # NL
  IN Match(e, Slice(s, b, e - 1))

\* _LOG_LINE.parseString(line): the date and time group, then the text.
LOG_LINE(s) ==
  LET dt == DATE_TIME(s, 1) IN
  IF ~dt.ok THEN dt ELSE
  LET tx == SkipToLineEnd(s, dt.end) IN
  [ok |-> TRUE, field |-> "", end |-> tx.end,
   date_time |-> dt.group, text |-> tx.token]

\* _SUPPORTED_KEYS of the vsftpd plugin.
VSFTPD_SUPPORTED_KEYS == {"logline"}

IsLeapYear(y) == (y % 4 = 0 /\ y % 100 # 0) \/ y % 400 = 0

DaysPerMonth(y, m) ==
  IF m \in {4, 6, 9, 11} THEN 30
  ELSE IF m = 2 THEN (IF IsLeapYear(y) THEN 29 ELSE 28)
  ELSE 31

\* Whether dfdatetime TimeElements accepts the tuple (year, month, day, hours,
\* minutes, seconds); it raises ValueError on a field out of range.
ValidTimeElements(tu) ==
  /\ tu[2] \in 1..12
  /\ tu[3] \in 1..DaysPerMonth(tu[1], tu[2])
  /\ tu[4] \in 0..23
  /\ tu[5] \in 0..59
  /\ tu[6] \in 0..59

\* The outcome of a call: a value returned or a ParseError raised.
Returned(v) == [raised |-> FALSE, value |-> v]
ParseError(message) == [raised |-> TRUE, error |-> "ParseError", message |-> message]

\* _ParseTimeElements with the ValueError of the date and time value left as
\* it is, not turned into a ParseError (a variant of ParseTimeElements).
ParseTimeElementsValueError(g) ==
  LET month == DictGet(MONTH_DICT, Lower(g.month_string), MonthDefault)
      tu == <<g.year, month, g.day_of_month, g.hours, g.minutes, g.seconds>>
  IN IF ValidTimeElements(tu)
     THEN [raised |-> FALSE,
           value |-> [type |-> "TimeElements", time_elements_tuple |-> tu,
                      is_local_time |-> TRUE]]
     ELSE [raised |-> TRUE, error |-> "ValueError", message |-> "out of bounds"]

\* _ParseTimeElements with January for a month name that is no key of the
\* month table (a variant of ParseTimeElements).
ParseTimeElementsDefaultJanuary(g) ==
  LET month == DictGet(MONTH_DICT, Lower(g.month_string), 1)
      tu == <<g.year, month, g.day_of_month, g.hours, g.minutes, g.seconds>>
  IN IF ValidTimeElements(tu)
     THEN [raised |-> FALSE,
           value |-> [type |-> "TimeElements", time_elements_tuple |-> tu,
                      is_local_time |-> TRUE]]
     ELSE [raised |-> TRUE, error |-> "ParseError",
           message |-> "Unable to parse time elements"]

\* _ParseTimeElements without the local-time flag set on the date and time
\* value (a variant of ParseTimeElements).
ParseTimeElementsNotLocal(g) ==
  LET month == DictGet(MONTH_DICT, Lower(g.month_string), MonthDefault)
      tu == <<g.year, month, g.day_of_month, g.hours, g.minutes, g.seconds>>
  IN IF ValidTimeElements(tu)
     THEN [raised |-> FALSE,
           value |-> [type |-> "TimeElements", time_elements_tuple |-> tu,
                      is_local_time |-> FALSE]]
     ELSE [raised |-> TRUE, error |-> "ParseError",
           message |-> "Unable to parse time elements"]

\* _ParseTimeElements: the month looked up by its lower-case name, the tuple
\* handed to TimeElements, the local-time flag set; a ValueError becomes a
\* ParseError.
ParseTimeElements(g) ==
  LET month == DictGet(MONTH_DICT, Lower(g.month_string), MonthDefault)
      tu == <<g.year, month, g.day_of_month, g.hours, g.minutes, g.seconds>>
  IN IF ValidTimeElements(tu)
     THEN Returned([type |-> "TimeElements", time_elements_tuple |-> tu,
                    is_local_time |-> TRUE])
     ELSE ParseError("Unable to parse time elements")

(* ------------------------ Android native downloads ------------------- *)

\* The required columns without mimetype (a variant of REQUIRED_STRUCTURE).
RequiredStructureWithoutMimetype ==
  [downloads |->
     {"_id", "uri", "_data", "destination", "visibility", "status",
      "lastmod", "notificationpackage", "total_bytes", "current_bytes", "etag",
      "description", "is_visible_in_downloads_ui", "mediaprovider_uri",
      "deleted", "errorMsg"}]

\* REQUIRED_STRUCTURE: the required columns of each required table.
REQUIRED_STRUCTURE ==
  [downloads |->
     {"_id", "uri", "_data", "mimetype", "destination", "visibility", "status",
      "lastmod", "notificationpackage", "total_bytes", "current_bytes", "etag",
      "description", "is_visible_in_downloads_ui", "mediaprovider_uri",
      "deleted", "errorMsg"}]

\* The query selecting title as well, a column the required structure does
\* not name (a variant of QUERIES).
QueriesWithTitle ==
  << [table |-> "downloads",
      columns |->
        <<"_id", "uri", "_data", "mimetype", "destination", "visibility",
          "status", "lastmod", "notificationpackage", "total_bytes",
          "current_bytes", "etag", "title", "description",
          "is_visible_in_downloads_ui", "mediaprovider_uri", "deleted",
          "errorMsg">>,
      callback |-> "ParseDownloadsRow"] >>

\* QUERIES: the columns the one query selects from table downloads, and the
\* name of its row handler.
QUERIES ==
  << [table |-> "downloads",
      columns |->
        <<"_id", "uri", "_data", "mimetype", "destination", "visibility",
          "status", "lastmod", "notificationpackage", "total_bytes",
          "current_bytes", "etag", "description", "is_visible_in_downloads_ui",
          "mediaprovider_uri", "deleted", "errorMsg">>,
      callback |-> "ParseDownloadsRow"] >>

\* SCHEMAS: the columns of each table of the one known schema.
SCHEMAS ==
  << [android_metadata |-> {"locale"},
      downloads |->
        {"_id", "uri", "method", "entity", "no_integrity", "hint", "otaupdate",
         "_data", "mimetype", "destination", "no_system", "visibility",
         "control", "status", "numfailed", "lastmod", "notificationpackage",
         "notificationclass", "notificationextras", "cookiedata", "useragent",
         "referer", "total_bytes", "current_bytes", "etag", "uid", "otheruid",
         "title", "description", "scanned", "is_public_api", "allow_roaming",
         "allowed_network_types", "is_visible_in_downloads_ui",
         "bypass_recommended_size_limit", "mediaprovider_uri", "deleted",
         "errorMsg", "allow_metered", "allow_write", "flags", "mediastore_uri"},
      request_headers |-> {"id", "download_id", "header", "value"},
      sqlite_sequence |-> {"name", "seq"}] >>

\* Values of a row or of an attribute: Python's None, an integer, a string.
None == [type |-> "None"]
IntValue(n) == [type |-> "int", value |-> n]
StrValue(s) == [type |-> "str", value |-> s]

\* dfdatetime JavaTime(timestamp=t): the epoch milliseconds, kept as given.
JavaTimestamp(t) == [type |-> "JavaTime", timestamp |-> t, is_local_time |-> FALSE]

\* _GetRowValue(query_hash, row, value_name): the row's value by column name.
GetRowValue(row, value_name) == row[value_name]

\* _GetDateTimeRowValue: None when the row holds no value, else a JavaTime.
GetDateTimeRowValue(row, value_name) ==
  LET timestamp == GetRowValue(row, value_name)
  IN IF timestamp = None THEN None ELSE JavaTimestamp(timestamp.value)

\* AndroidNativeDownloadsEventData(): every attribute starts as None.
AndroidNativeDownloadsEventData ==
  [data_type |-> "android:sqlite:downloads",
   lastmod |-> None, id |-> None, uri |-> None, mimetype |-> None,
   total_bytes |-> None, current_bytes |-> None, status |-> None,
   saved_to |-> None, deleted |-> None, notification_package |-> None,
   title |-> None, media_provider_uri |-> None, error_msg |-> None,
   is_visible_in_downloads_ui |-> None, destination |-> None,
   ui_visibility |-> None, e_tag |-> None, description |-> None]

\* The check of the required tables and columns against the catalog of a
\* database: every required table is there with every required column.
CheckRequiredTablesAndColumns(cat) ==
  \A tb \in DOMAIN REQUIRED_STRUCTURE :
    /\ tb \in DOMAIN cat
    /\ REQUIRED_STRUCTURE[tb] \subseteq cat[tb]

(* ------------------------------ the sink ------------------------------ *)

\* What the sink received: an EventData or a Warning, with the position of
\* the unit it is about (line number, text offset, row number).
EventEntry(pos, data) == [kind |-> "event", pos |-> pos, data |-> data]
WarningEntry(pos, message, reason) ==
  [kind |-> "warning", pos |-> pos, message |-> message, reason |-> reason]

\* parser_mediator.ProduceEventData(event_data)
ProduceEventData(snk, pos, data) == Append(snk, EventEntry(pos, data))

\* parser_mediator.ProduceExtractionWarning(message); reason is the part of
\* the message that says what could not be parsed.
ProduceExtractionWarning(snk, pos, message, reason) ==
  Append(snk, WarningEntry(pos, message, reason))

\* The outcome of a record handler: the sink after it, and whether it raised.
Handled(snk) == [raised |-> FALSE, sink |-> snk, message |-> ""]
Raised(snk, message) ==
  [raised |-> TRUE, error |-> "ParseError", sink |-> snk, message |-> message]

\* A handler that lets the exception of a call it made pass on.
Passed(snk, exception) ==
  [raised |-> TRUE, error |-> exception.error, sink |-> snk,
   message |-> exception.message]

(* ------------------------------ handlers ------------------------------ *)

\* ParseRecord handing its event data to the sink ahead of what the sink
\* holds (a variant of ZshParseRecord).
ZshParseRecordOutOfOrder(snk, pos, key, structure) ==
  IF key \notin ZSH_SUPPORTED_KEYS
  THEN Raised(snk, "Unable to parse record, unknown structure")
  ELSE Handled(<<EventEntry(pos,
         [data_type |-> "shell:zsh:history",
          command |-> structure.command,
          elapsed_seconds |-> structure.elapsed_seconds,
          last_written_time |-> PosixTime(structure.timestamp)])>> \o snk)

\* ZshExtendedHistoryParser.ParseRecord
ZshParseRecord(snk, pos, key, structure) ==
  IF key \notin ZSH_SUPPORTED_KEYS
  THEN Raised(snk, "Unable to parse record, unknown structure")
  ELSE LET timestamp == structure.timestamp
           event_data == [data_type |-> "shell:zsh:history",
                          command |-> structure.command,
                          elapsed_seconds |-> structure.elapsed_seconds,
                          last_written_time |-> PosixTime(timestamp)]
       IN Handled(ProduceEventData(snk, pos, event_data))

\* _ParseLogLine producing its event data twice (a variant of ParseLogLine).
ParseLogLineTwice(snk, pos, structure) ==
  LET added_time == ParseTimeElements(structure.date_time)
      event_data == [data_type |-> "vsftpd:log",
                     added_time |-> added_time.value,
                     text |-> structure.text]
  IN IF added_time.raised
     THEN Passed(snk, added_time)
     ELSE Handled(ProduceEventData(ProduceEventData(snk, pos, event_data),
                                   pos, event_data))

\* VsftpdLogTextPlugin._ParseLogLine
ParseLogLine(snk, pos, structure) ==
  LET added_time == ParseTimeElements(structure.date_time)
  IN IF added_time.raised
     THEN Passed(snk, added_time)
     ELSE Handled(ProduceEventData(snk, pos,
            [data_type |-> "vsftpd:log",
             added_time |-> added_time.value,
             text |-> structure.text]))

\* _ParseRecord dropping the ParseError of a log line without a warning (a
\* variant of VsftpdParseRecord).
VsftpdParseRecordSilent(snk, pos, key, structure) ==
  IF key \notin VSFTPD_SUPPORTED_KEYS
  THEN Raised(snk, "Unable to parse record, unknown structure")
  ELSE LET r == ParseLogLine(snk, pos, structure)
       IN IF r.raised /\ r.error = "ParseError" THEN Handled(r.sink) ELSE r

\* VsftpdLogTextPlugin._ParseRecord
VsftpdParseRecord(snk, pos, key, structure) ==
  IF key \notin VSFTPD_SUPPORTED_KEYS
  THEN Raised(snk, "Unable to parse record, unknown structure")
  ELSE LET r == ParseLogLine(snk, pos, structure)
       IN IF r.raised /\ r.error = "ParseError"
          THEN Handled(ProduceExtractionWarning(r.sink, pos,
                 "unable to parse log line with error", r.message))
          ELSE r

\* AndroidNativeDownloadsPlugin.ParseDownloadsRow
ParseDownloadsRow(snk, pos, query, row) ==
  LET event_data == AndroidNativeDownloadsEventData
  IN Handled(ProduceEventData(snk, pos, event_data))

(* ------------------------------ detectors ----------------------------- *)

PID_MARKER == <<" ", "[", "p", "i", "d", " ">>
CLIENT_MARKER == <<":", " ", "C", "l", "i", "e", "n", "t", " ">>

\* _ReadLineOfText(text_file_object): the next line of the reader, the empty
\* text at the end of the data.
ReadLineOfText(lns, pos) == IF pos <= Len(lns) THEN lns[pos] ELSE <<>>

\* The reader's position after _ReadLineOfText.
AfterReadLine(lns, pos) == IF pos <= Len(lns) THEN pos + 1 ELSE pos

\* A byte sequence that is no text in the encoding of the reader.
UndecodableByte == "0xFF"

\* An exception other than ParseError on its way to the caller.
RaisedError(name) == [raised |-> TRUE, error |-> name, message |-> name]

\* The outcome of _ReadLineOfText(text_file_object): the line, an OSError
\* when the source cannot be read at all, a UnicodeDecodeError when the line
\* read holds bytes that do not decode.
ReadLineOutcome(readable_source, lns, pos) ==
  IF ~readable_source THEN RaisedError("OSError")
  ELSE IF \E k \in DOMAIN ReadLineOfText(lns, pos) :
            ReadLineOfText(lns, pos)[k] = UndecodableByte
       THEN RaisedError("UnicodeDecodeError")
       ELSE Returned(ReadLineOfText(lns, pos))

\* ZshExtendedHistoryParser.CheckRequiredFormat on text_reader.lines
ZshCheckRequiredFormat(buffer) == VERIFICATION_REGEX(buffer)

\* VsftpdLogTextPlugin.CheckRequiredFormat, on the line it read: False
\* without the markers, on a ParseException of the grammar and on a ParseError
\* of _ParseTimeElements; any other exception passes on.
VsftpdCheckRequiredFormat(line) ==
  IF line # <<>> /\ (~Contains(line, PID_MARKER) \/ ~Contains(line, CLIENT_MARKER))
  THEN Returned(FALSE)
  ELSE LET TimeChecked(date_time) ==
             IF ~date_time.raised THEN Returned(TRUE)
             ELSE IF date_time.error = "ParseError" THEN Returned(FALSE)
             ELSE date_time
           Parsed(parsed_structure) ==
             IF ~parsed_structure.ok THEN Returned(FALSE)
             ELSE TimeChecked(ParseTimeElements(parsed_structure.date_time))
       IN Parsed(LOG_LINE(line))

\* CheckRequiredFormat with the UnicodeDecodeError of the read left to the
\* caller (a variant of VsftpdCheckRequiredFormatCall).
VsftpdCheckRequiredFormatUncaught(readable_source, lns, pos) ==
  LET line == ReadLineOutcome(readable_source, lns, pos)
  IN IF line.raised THEN line
     ELSE VsftpdCheckRequiredFormat(line.value)

\* VsftpdLogTextPlugin.CheckRequiredFormat on the text file object: the
\* read, with its UnicodeDecodeError answered by False and any other error of
\* the read left to the caller, then the checks of the line.
VsftpdCheckRequiredFormatCall(readable_source, lns, pos) ==
  LET line == ReadLineOutcome(readable_source, lns, pos)
  IN IF line.raised
     THEN (IF line.error = "UnicodeDecodeError" THEN Returned(FALSE) ELSE line)
     ELSE VsftpdCheckRequiredFormat(line.value)

(* ------------------------------- samples ------------------------------ *)

ZSH_SPACED == <<":", " ", "1", "6", "7", "3", ":", "4", "2", ";", "l", "s", " ", "-", "l", "a">>
ZSH_SCENARIO_A == <<":", "1", "6", "7", "3", ":", "4", "2", ";", "l", "s", " ", "-", "l", "a">>
ZSH_SCENARIO_B == <<":", "a", "b", "c", ":", "4", "2", ";", "l", "s">>
ZSH_EMPTY_COMMAND == <<":", " ", "5", ":", "0", ";">>
ZSH_CONTINUATION == <<"e", "c", "h", "o">>

\* The lines a zsh history is made of.
ZshLineSamples ==
  {ZSH_SPACED, ZSH_SCENARIO_A, ZSH_SCENARIO_B, ZSH_EMPTY_COMMAND, ZSH_CONTINUATION}

VS_DATE_JUN == <<"M", "o", "n", " ", "J", "u", "n", " ", " ", "6", " ", "1", "8", ":", "4", "3", ":", "2", "8", " ", "2", "0", "1", "6">>
VS_DATE_DEC == <<"T", "u", "e", " ", "D", "E", "C", " ", "3", "1", " ", "2", "3", ":", "5", "9", ":", "5", "9", " ", "2", "0", "1", "9">>
VS_DATE_XYZ == <<"M", "o", "n", " ", "X", "y", "z", " ", " ", "6", " ", "1", "8", ":", "4", "3", ":", "2", "8", " ", "2", "0", "1", "6">>
VS_DATE_DAY32 == <<"M", "o", "n", " ", "J", "u", "n", " ", "3", "2", " ", "1", "8", ":", "4", "3", ":", "2", "8", " ", "2", "0", "1", "6">>
VS_DATE_SHORT == <<"M", "o", "n", " ", "J", "u", "n", " ", " ", "6", " ", "1", "8", ":", "4", "3", " ", "2", "0", "1", "6">>
VS_TAIL_CLIENT == <<" ", "[", "p", "i", "d", " ", "3", "]", " ", "O", "K", ":", " ", "C", "l", "i", "e", "n", "t", " ", "x">>
VS_TAIL_PLAIN == <<" ", "s", "t", "a", "r", "t", "e", "d">>

VS_LINE_JUN == VS_DATE_JUN \o VS_TAIL_CLIENT
VS_LINE_DEC == VS_DATE_DEC \o VS_TAIL_CLIENT
VS_LINE_XYZ == VS_DATE_XYZ \o VS_TAIL_CLIENT
VS_LINE_DAY32 == VS_DATE_DAY32 \o VS_TAIL_CLIENT
VS_LINE_SHORT == VS_DATE_SHORT \o VS_TAIL_CLIENT
VS_LINE_PLAIN == VS_DATE_JUN \o VS_TAIL_PLAIN
VS_LINE_UNDECODABLE == VS_DATE_JUN \o <<" ", UndecodableByte>> \o VS_TAIL_CLIENT

\* The lines a vsftpd log is made of.
VsftpdLineSamples ==
  {VS_LINE_JUN, VS_LINE_DEC, VS_LINE_XYZ, VS_LINE_DAY32, VS_LINE_SHORT, VS_LINE_PLAIN,
   VS_LINE_UNDECODABLE}

\* The sequences of at most n elements of S.
SeqsUpTo(S, n) == UNION {[1..k -> S] : k \in 0..n}

\* The logs: at most MaxLines lines, a line that does not decode only as the
\* first line, where the detector reads it.
VsftpdLogSamples ==
  {lns \in SeqsUpTo(VsftpdLineSamples, MaxLines) :
     \A k \in 2..Len(lns) : lns[k] # VS_LINE_UNDECODABLE}

\* The lines joined by newlines into one text.
RECURSIVE JoinLines(_)
JoinLines(lns) ==
  IF lns = <<>> THEN <<>>
  ELSE IF Len(lns) = 1 THEN lns[1]
  ELSE lns[1] \o <<NL>> \o JoinLines(Tail(lns))

\* The columns the query yields, as a set.
QueryColumns == {QUERIES[1].columns[k] : k \in 1..Len(QUERIES[1].columns)}

\* A row of the query with every column NULL.
NullRow == [c \in QueryColumns |-> None]

ROW_FULL ==
  [NullRow EXCEPT
     !["_id"] = IntValue(7), !["uri"] = StrValue("http://example.com/a.pdf"),
     !["_data"] = StrValue("/storage/a.pdf"), !["mimetype"] = StrValue("application/pdf"),
     !["destination"] = IntValue(4), !["visibility"] = IntValue(1),
     !["status"] = IntValue(200), !["lastmod"] = IntValue(1673042),
     !["notificationpackage"] = StrValue("com.android.chrome"),
     !["total_bytes"] = IntValue(4096), !["current_bytes"] = IntValue(4096),
     !["etag"] = StrValue("e1"), !["description"] = StrValue("a.pdf"),
     !["is_visible_in_downloads_ui"] = IntValue(1),
     !["mediaprovider_uri"] = StrValue("content://media/1"),
     !["deleted"] = IntValue(0), !["errorMsg"] = StrValue("none")]

\* A row whose optional values are NULL, its numbers zero and its text empty.
ROW_SPARSE ==
  [NullRow EXCEPT
     !["_id"] = IntValue(8), !["uri"] = StrValue("http://example.com/b"),
     !["lastmod"] = IntValue(0), !["total_bytes"] = IntValue(0),
     !["description"] = StrValue(""), !["deleted"] = IntValue(1)]

\* A row whose lastmod holds text where a number of milliseconds belongs.
ROW_BAD_LASTMOD ==
  [ROW_FULL EXCEPT !["_id"] = IntValue(9), !["lastmod"] = StrValue("yesterday")]

\* The rows the query yields.
RowSamples == {ROW_FULL, ROW_SPARSE, ROW_BAD_LASTMOD}

\* The catalogs of a database: table downloads with one
\* required column missing, with exactly the required columns, the known
\* schema, and the known schema without table downloads.
CatalogSamples ==
  {[downloads |-> REQUIRED_STRUCTURE.downloads \ {c}] :
          c \in REQUIRED_STRUCTURE.downloads \cup SCHEMAS[1].downloads}
  \cup {[android_metadata |-> {"locale"},
         downloads |-> SCHEMAS[1].downloads \ {c}] : c \in SCHEMAS[1].downloads}
  \cup {SCHEMAS[1],
        [android_metadata |-> {"locale"}, sqlite_sequence |-> {"name", "seq"}]}

(* ---------------------------- the scan -------------------------------- *)

VARIABLES
  plugin,         \* the plugin the host tries on the source
  text,           \* zsh: text_reader.lines, the text of the artifact
  lines,          \* vsftpd: the lines the text file object yields
  catalog,        \* android: the tables of the database and their columns
  rows,           \* android: the rows the query yields, in order
  readable,       \* whether the source can be read at all
  cursor,         \* the reader: next line, next text offset, next row
  state,          \* Detect, Rejected, Failed, Idle, ReadingUnit, UnitMatched, UnitFailed, Exhausted
  detectResults,  \* what each call of the format detector returned
  unit,           \* the position of the unit being handled
  structure,      \* the tokens of the unit being handled
  sink,           \* what the sink received, in order
  processed,      \* the units the scanner read, in order, and whether each matched
  escaped         \* the errors that reached the caller of the detector or of the scan

vars ==
  <<plugin, text, lines, catalog, rows, readable, cursor, state, detectResults,
    unit, structure, sink, processed, escaped>>

source == <<plugin, text, lines, catalog, rows, readable>>

NoStructure == [ok |-> FALSE, field |-> ""]
NoCatalog == [none |-> {}]

InitZsh ==
  /\ plugin = "zsh"
  /\ text \in {JoinLines(ls) : ls \in SeqsUpTo(ZshLineSamples, MaxLines)}
  /\ lines = <<>>
  /\ catalog = NoCatalog
  /\ rows = <<>>
  /\ readable = TRUE

InitVsftpd ==
  /\ plugin = "vsftpd"
  /\ text = <<>>
  /\ lines \in VsftpdLogSamples
  /\ catalog = NoCatalog
  /\ rows = <<>>
  /\ readable \in BOOLEAN

InitAndroid ==
  /\ plugin = "android"
  /\ text = <<>>
  /\ lines = <<>>
  /\ catalog \in CatalogSamples
  /\ rows \in (IF "downloads" \in DOMAIN catalog /\ QueryColumns \subseteq catalog.downloads
               THEN SeqsUpTo(RowSamples, MaxRows)
               ELSE {<<>>})
  /\ readable = TRUE

Init ==
  /\ (InitZsh \/ InitVsftpd \/ InitAndroid)
  /\ cursor = 1
  /\ state = "Detect"
  /\ detectResults = <<>>
  /\ unit = 0
  /\ structure = NoStructure
  /\ sink = <<>>
  /\ processed = <<>>
  /\ escaped = <<>>

\* The host calls the detector of the zsh parser: a match on the buffer.
DetectZsh ==
  /\ plugin = "zsh"
  /\ state = "Detect"
  /\ Len(detectResults) < MaxDetectCalls
  /\ detectResults' = Append(detectResults, ZshCheckRequiredFormat(text))
  /\ UNCHANGED <<source, escaped, cursor, state, unit, structure, sink, processed>>

\* The host calls the detector of the vsftpd plugin: it reads a line from the
\* text file object and checks it; an error it does not answer reaches the
\* host.
DetectVsftpd ==
  /\ plugin = "vsftpd"
  /\ state = "Detect"
  /\ Len(detectResults) < MaxDetectCalls
  /\ \E r \in {VsftpdCheckRequiredFormatCall(readable, lines, cursor)} :
        IF r.raised
        THEN /\ escaped' = Append(escaped, r.error)
             /\ state' = "Failed"
             /\ UNCHANGED <<detectResults, cursor>>
        ELSE /\ detectResults' = Append(detectResults, r.value)
             /\ cursor' = AfterReadLine(lines, cursor)
             /\ UNCHANGED <<escaped, state>>
  /\ UNCHANGED <<source, unit, structure, sink, processed>>

\* The host checks the schema of the database.
DetectAndroid ==
  /\ plugin = "android"
  /\ state = "Detect"
  /\ Len(detectResults) < MaxDetectCalls
  /\ detectResults' = Append(detectResults, CheckRequiredTablesAndColumns(catalog))
  /\ UNCHANGED <<source, escaped, cursor, state, unit, structure, sink, processed>>

\* The detector gates the scan: the scanner runs when it returned true.
StartScan ==
  /\ state = "Detect"
  /\ detectResults # <<>>
  /\ detectResults[Len(detectResults)]
  /\ state' = "Idle"
  /\ UNCHANGED <<source, escaped, cursor, detectResults, unit, structure, sink, processed>>

\* The detector returned false: the host tries another plugin.
RejectSource ==
  /\ state = "Detect"
  /\ detectResults # <<>>
  /\ ~detectResults[Len(detectResults)]
  /\ state' = "Rejected"
  /\ UNCHANGED <<source, escaped, cursor, detectResults, unit, structure, sink, processed>>

\* Whether the reader has no more data.
EndOfData ==
  CASE plugin = "zsh" -> cursor > Len(text)
    [] plugin = "vsftpd" -> cursor > Len(lines)
    [] plugin = "android" -> cursor > Len(rows)

\* Idle to ReadingUnit: the scanner pulls the next unit.
ReadUnit ==
  /\ state = "Idle"
  /\ ~EndOfData
  /\ state' = "ReadingUnit"
  /\ unit' = cursor
  /\ UNCHANGED <<source, escaped, cursor, detectResults, structure, sink, processed>>

\* The source reports the end of the data.
Exhaust ==
  /\ state = "Idle"
  /\ EndOfData
  /\ state' = "Exhausted"
  /\ UNCHANGED <<source, escaped, cursor, detectResults, unit, structure, sink, processed>>

\* The offset after the line that starts at i: past its newline, or past the
\* end of the text.
NextLineStart(s, i) ==
  IF \E j \in i..Len(s) : s[j] = NL
  THEN (CHOOSE j \in i..Len(s) : s[j] = NL /\ \A k \in i..(j - 1) : s[k] # NL) + 1
  ELSE Len(s) + 1

\* ReadingUnit to UnitMatched or UnitFailed, zsh: the grammar is applied at
\* the offset; a match consumes the record, a rejection is a warning and the
\* scanner skips the line.
TokenizeZsh ==
  /\ plugin = "zsh"
  /\ state = "ReadingUnit"
  /\ \E r \in {LINE_GRAMMAR(text, unit)} :
        /\ processed' = Append(processed, [pos |-> unit, matched |-> r.ok])
        /\ IF r.ok
           THEN /\ structure' = r
                /\ cursor' = r.end
                /\ state' = "UnitMatched"
                /\ sink' = sink
           ELSE /\ structure' = NoStructure
                /\ cursor' = NextLineStart(text, unit)
                /\ state' = "UnitFailed"
                /\ sink' = ProduceExtractionWarning(sink, unit,
                             "unable to parse log line", r.field)
  /\ UNCHANGED <<source, escaped, detectResults, unit>>

\* ReadingUnit to UnitMatched or UnitFailed, vsftpd: the grammar is applied
\* to the line read.
TokenizeVsftpd ==
  /\ plugin = "vsftpd"
  /\ state = "ReadingUnit"
  /\ \E r \in {LOG_LINE(lines[unit])} :
        /\ processed' = Append(processed, [pos |-> unit, matched |-> r.ok])
        /\ cursor' = unit + 1
        /\ IF r.ok
           THEN /\ structure' = r
                /\ state' = "UnitMatched"
                /\ sink' = sink
           ELSE /\ structure' = NoStructure
                /\ state' = "UnitFailed"
                /\ sink' = ProduceExtractionWarning(sink, unit,
                             "unable to parse log line", r.field)
  /\ UNCHANGED <<source, escaped, detectResults, unit>>

\* The sink after a record handler ran: a ParseError it raised is caught by
\* the scanner and becomes a warning.
AfterHandler(r, pos) ==
  IF r.raised /\ r.error = "ParseError"
  THEN ProduceExtractionWarning(r.sink, pos, "unable to parse record", r.message)
  ELSE r.sink

\* Whether the record handler raised what the scanner does not catch.
Escapes(r) == r.raised /\ r.error # "ParseError"

\* The scanner after the record handler of a matched unit returned or raised:
\* it goes on with the next unit, or the scan ends with the error at its
\* caller.
AfterRecord(r) ==
  /\ sink' = AfterHandler(r, unit)
  /\ escaped' = IF Escapes(r) THEN Append(escaped, r.error) ELSE escaped
  /\ state' = IF Escapes(r) THEN "Failed" ELSE "Idle"
  /\ structure' = NoStructure

\* The structure keys a record handler is called with: the keys of the line
\* structures of both text plugins, and a key of neither.
StructureKeySamples == ZSH_SUPPORTED_KEYS \cup VSFTPD_SUPPORTED_KEYS \cup {"header"}

\* UnitMatched to Idle, zsh: the record handler runs on the tokens.
RecordZsh ==
  /\ plugin = "zsh"
  /\ state = "UnitMatched"
  /\ \E key \in ZSH_SUPPORTED_KEYS :
       AfterRecord(ZshParseRecord(sink, unit, key, structure))
  /\ UNCHANGED <<source, cursor, detectResults, unit, processed>>

\* UnitMatched to Idle, vsftpd: the record handler runs on the tokens.
RecordVsftpd ==
  /\ plugin = "vsftpd"
  /\ state = "UnitMatched"
  /\ \E key \in VSFTPD_SUPPORTED_KEYS :
       AfterRecord(VsftpdParseRecord(sink, unit, key, structure))
  /\ UNCHANGED <<source, cursor, detectResults, unit, processed>>

\* UnitMatched to Idle, zsh, the record handler called with any structure key.
RecordZshAnyKey ==
  /\ plugin = "zsh"
  /\ state = "UnitMatched"
  /\ \E key \in StructureKeySamples :
       AfterRecord(ZshParseRecord(sink, unit, key, structure))
  /\ UNCHANGED <<source, cursor, detectResults, unit, processed>>

\* UnitMatched to Idle, vsftpd, the record handler called with any structure
\* key.
RecordVsftpdAnyKey ==
  /\ plugin = "vsftpd"
  /\ state = "UnitMatched"
  /\ \E key \in StructureKeySamples :
       AfterRecord(VsftpdParseRecord(sink, unit, key, structure))
  /\ UNCHANGED <<source, cursor, detectResults, unit, processed>>

\* ReadingUnit to Idle, android: the row handler of the query runs on the row.
RowAndroid ==
  /\ plugin = "android"
  /\ state = "ReadingUnit"
  /\ LET r == ParseDownloadsRow(sink, unit, QUERIES[1], rows[unit])
     IN /\ sink' = AfterHandler(r, unit)
        /\ escaped' = IF Escapes(r) THEN Append(escaped, r.error) ELSE escaped
        /\ state' = IF Escapes(r) THEN "Failed" ELSE "Idle"
  /\ processed' = Append(processed, [pos |-> unit, matched |-> TRUE])
  /\ cursor' = unit + 1
  /\ UNCHANGED <<source, detectResults, unit, structure>>

\* UnitFailed to Idle: the scanner goes on with the next unit.
Resume ==
  /\ state = "UnitFailed"
  /\ state' = "Idle"
  /\ UNCHANGED <<source, escaped, cursor, detectResults, unit, structure, sink, processed>>

Next ==
  \/ DetectZsh
  \/ DetectVsftpd
  \/ DetectAndroid
  \/ StartScan
  \/ RejectSource
  \/ ReadUnit
  \/ Exhaust
  \/ TokenizeZsh
  \/ TokenizeVsftpd
  \/ RecordZsh
  \/ RecordVsftpd
  \/ RowAndroid
  \/ Resume

Spec == Init /\ [][Next]_vars

\* The states of a scan that is under way.
ScanUnderWay == {"Idle", "ReadingUnit", "UnitMatched", "UnitFailed"}

\* A step of the scanner's loop: it leaves the state it is in.
ScannerStep ==
  /\ state \in ScanUnderWay
  /\ state' \in ScanUnderWay \cup {"Exhausted", "Failed"}
  /\ state' # state

\* The scan as the one sequential pass it is: the loop of a scan under way
\* runs on, it does not pause for ever between two steps.
SpecFair == Spec /\ WF_state(ScannerStep)

\* The scan with the record handlers called with any structure key.
NextAnyKey ==
  \/ DetectZsh
  \/ DetectVsftpd
  \/ DetectAndroid
  \/ StartScan
  \/ RejectSource
  \/ ReadUnit
  \/ Exhaust
  \/ TokenizeZsh
  \/ TokenizeVsftpd
  \/ RecordZshAnyKey
  \/ RecordVsftpdAnyKey
  \/ RowAndroid
  \/ Resume

SpecAnyKey == Init /\ [][NextAnyKey]_vars

(* ------------------------- reading the history ------------------------ *)

\* The entries of one kind the sink holds for the unit at pos.
EntriesAt(kind, pos) == {i \in DOMAIN sink : sink[i].kind = kind /\ sink[i].pos = pos}

EventsAt(pos) == Cardinality(EntriesAt("event", pos))
WarningsAt(pos) == Cardinality(EntriesAt("warning", pos))

\* Whether the scanner is done with the k-th unit it read: it read a later one,
\* or the handler of the unit is not pending.
Finished(k) == k < Len(processed) \/ state # "UnitMatched"

\* The text of the unit the scanner read at pos: the line, or the text from the
\* offset on.
RawUnit(pos) ==
  CASE plugin = "vsftpd" -> lines[pos]
    [] plugin = "zsh" -> Slice(text, pos, Len(text))
    [] OTHER -> <<>>

(* ------------------------------- claims ------------------------------- *)

\* The units of the samples that cannot become an event: a vsftpd line with
\* the seconds missing, with a month name that is no month, with day 32; a zsh
\* unit whose timestamp is not a number, or whose command is missing.
MalformedUnit(pos) ==
  \/ /\ plugin = "vsftpd"
     /\ RawUnit(pos) \in {VS_LINE_SHORT, VS_LINE_XYZ, VS_LINE_DAY32}
  \/ /\ plugin = "zsh"
     /\ \/ RawUnit(pos) = ZSH_EMPTY_COMMAND
        \/ OccursAt(RawUnit(pos), 1, ZSH_SCENARIO_B)

\* C1: every unit the scanner read that violates the grammar, or whose time
\* fields cannot be normalized, gets exactly one Warning, which says what
\* could not be parsed, and no EventData; the scanner then goes on: from
\* UnitFailed it resumes, and it ends only at the end of the data.  Applied to
\* the unit :abc:42;ls the zsh grammar rejects at the timestamp field.
C1_MalformedUnitOneWarning ==
  /\ \A k \in DOMAIN processed :
       (Finished(k) /\ MalformedUnit(processed[k].pos)) =>
          /\ WarningsAt(processed[k].pos) = 1
          /\ EventsAt(processed[k].pos) = 0
          /\ \A i \in EntriesAt("warning", processed[k].pos) : sink[i].reason # ""
  /\ (state = "UnitFailed" => ENABLED Resume)
  /\ (state = "Exhausted" => EndOfData)
  /\ LINE_GRAMMAR(ZSH_SCENARIO_B, 1) = Rejected("timestamp")

\* A malformed unit was read and warned about, and a later unit was read.
C1_Witness ==
  \E k \in DOMAIN processed :
    /\ k < Len(processed)
    /\ MalformedUnit(processed[k].pos)
    /\ WarningsAt(processed[k].pos) = 1

\* C2: the sink receives the entries of a scan in the order of their units,
\* one entry at most per unit, and when the scanner reads a unit the entry of
\* every unit read before is already in the sink.
C2_EmissionInSourceOrder ==
  /\ \A i, j \in DOMAIN sink : i < j => sink[i].pos < sink[j].pos
  /\ \A k \in DOMAIN processed :
       Finished(k) => EventsAt(processed[k].pos) + WarningsAt(processed[k].pos) = 1
  /\ (state = "ReadingUnit" =>
        \A k \in DOMAIN processed : processed[k].pos < unit /\ Finished(k))

\* Two units matched and the event of the first is in the sink before the
\* event of the second.
C2_Witness ==
  \E i, j \in DOMAIN sink :
    /\ i < j
    /\ sink[i].kind = "event"
    /\ sink[j].kind = "event"
    /\ sink[i].pos < sink[j].pos

\* The positions of the units the scanner read.
ProcessedPositions == {processed[k].pos : k \in DOMAIN processed}

\* C3: every call of the detector on one source returns the same boolean,
\* and the scan that follows reads the source from its first unit on, every
\* line of it, however often the detector was called.
C3_DetectionIdempotentNonConsuming ==
  /\ \A i, j \in DOMAIN detectResults : detectResults[i] = detectResults[j]
  /\ (processed # <<>> => processed[1].pos = 1)
  /\ (state = "Exhausted" /\ plugin = "vsftpd" => ProcessedPositions = 1..Len(lines))

\* C4: the schema check accepts a database exactly when it has table
\* downloads with every one of the 17 required columns; a table downloads
\* without mimetype is rejected, other tables and columns do not matter.
C4_SchemaCheckRequiredColumns ==
  plugin = "android" =>
    /\ Cardinality(REQUIRED_STRUCTURE.downloads) = 17
    /\ \A k \in DOMAIN detectResults :
         /\ detectResults[k] =
              ("downloads" \in DOMAIN catalog
                 /\ REQUIRED_STRUCTURE.downloads \subseteq catalog.downloads)
         /\ (detectResults[k] => "mimetype" \in catalog.downloads)

\* Scenario C: table downloads with every required column but mimetype was
\* checked and rejected.
C4_Witness ==
  /\ plugin = "android"
  /\ catalog = [downloads |-> REQUIRED_STRUCTURE.downloads \ {"mimetype"}]
  /\ detectResults = <<FALSE>>
  /\ state = "Rejected"

\* Whether the values of a row can be given the types of their attributes:
\* lastmod, when the row has one, a number of milliseconds.
Coercible(row) == row["lastmod"].type \in {"None", "int"}

\* C5: a row whose extraction fails on a coercion gets one Warning and no
\* EventData, and every other row of the query gets its EventData.
C5_RowFailureScopedToRow ==
  plugin = "android" =>
    \A k \in DOMAIN processed :
      LET pos == processed[k].pos
      IN IF Coercible(rows[pos])
         THEN EventsAt(pos) = 1 /\ WarningsAt(pos) = 0
         ELSE EventsAt(pos) = 0 /\ WarningsAt(pos) = 1

\* The timestamp an EventData carries.
TimestampOf(data) ==
  CASE data.data_type = "shell:zsh:history" -> data.last_written_time
    [] data.data_type = "vsftpd:log" -> data.added_time
    [] data.data_type = "android:sqlite:downloads" -> data.lastmod

\* Whether a timestamp is the result of a normalization that succeeded.
ValidTimestamp(ts) ==
  CASE ts.type = "PosixTime" -> ts.timestamp >= 0
    [] ts.type = "JavaTime" -> ts.timestamp >= 0
    [] ts.type = "TimeElements" ->
         /\ ts.time_elements_tuple[2] \in 1..12
         /\ ts.time_elements_tuple[3] \in 1..31
         /\ ts.time_elements_tuple[4] \in 0..23
         /\ ts.time_elements_tuple[5] \in 0..59
         /\ ts.time_elements_tuple[6] \in 0..59
    [] OTHER -> FALSE

\* C6: every EventData the sink received carries a timestamp that is the
\* result of a normalization that succeeded, never a null one.
C6_NoInvalidTimestampEmitted ==
  \A i \in DOMAIN sink :
    sink[i].kind = "event" => ValidTimestamp(TimestampOf(sink[i].data))

\* Whether the k-th unit the scanner read matched its grammar and has time
\* fields that normalize.
Succeeds(k) ==
  /\ processed[k].matched
  /\ plugin = "vsftpd" =>
       ~ParseTimeElements(LOG_LINE(lines[processed[k].pos]).date_time).raised

EventCount == Cardinality({i \in DOMAIN sink : sink[i].kind = "event"})

AttributeColumn ==
  [id |-> "_id", uri |-> "uri", saved_to |-> "_data", mimetype |-> "mimetype",
   destination |-> "destination", ui_visibility |-> "visibility",
   status |-> "status", notification_package |-> "notificationpackage",
   total_bytes |-> "total_bytes", current_bytes |-> "current_bytes",
   e_tag |-> "etag", description |-> "description",
   is_visible_in_downloads_ui |-> "is_visible_in_downloads_ui",
   media_provider_uri |-> "mediaprovider_uri", deleted |-> "deleted",
   error_msg |-> "errorMsg"]

\* C8: the EventData of a row holds, for every scalar attribute, the value of
\* the row's column of that attribute, for lastmod the JavaTime of the row's
\* milliseconds, and None where the row holds no value.
C8_EventDataMirrorsRow ==
  plugin = "android" =>
    \A i \in DOMAIN sink :
      sink[i].kind = "event" =>
        LET row == rows[sink[i].pos]
            data == sink[i].data
        IN /\ \A a \in DOMAIN AttributeColumn : data[a] = row[AttributeColumn[a]]
           /\ data.lastmod = GetDateTimeRowValue(row, "lastmod")
           /\ data.title = None

\* The EventData of scenario A.
ScenarioAEvent ==
  [data_type |-> "shell:zsh:history",
   command |-> <<"l", "s", " ", "-", "l", "a">>,
   elapsed_seconds |-> 42,
   last_written_time |-> [type |-> "PosixTime", timestamp |-> 1673,
                          is_local_time |-> FALSE]]

\* C9 as claimed: a history that is the unit :1673:42;ls -la passes the
\* detector, and its scan ends with the one EventData of scenario A in the
\* sink and no Warning.
C9_ScenarioAPassesGate ==
  (plugin = "zsh" /\ text = ZSH_SCENARIO_A) =>
    /\ \A k \in DOMAIN detectResults : detectResults[k]
    /\ state # "Rejected"
    /\ (state = "Exhausted" => sink = <<EventEntry(1, ScenarioAEvent)>>)

\* C9 as amended: the grammar applied to :1673:42;ls -la yields timestamp
\* 1673, elapsed_seconds 42 and command "ls -la", but the detector rejects a
\* history that starts with it, the verification pattern asking for one
\* whitespace after the leading colon, so nothing is emitted; the scan of the
\* history : 1673:42;ls -la passes the detector and ends with exactly the one
\* EventData, timestamp the epoch seconds 1673, and no Warning.
C9_ScenarioAWithWhitespace ==
  /\ LET r == LINE_GRAMMAR(ZSH_SCENARIO_A, 1)
     IN /\ r.ok
        /\ r.timestamp = 1673
        /\ r.elapsed_seconds = 42
        /\ r.command = ScenarioAEvent.command
  /\ (plugin = "zsh" /\ OccursAt(text, 1, ZSH_SCENARIO_A)) =>
       /\ \A k \in DOMAIN detectResults : ~detectResults[k]
       /\ state \in {"Detect", "Rejected"}
       /\ sink = <<>>
  /\ (plugin = "zsh" /\ text = ZSH_SPACED) =>
       /\ \A k \in DOMAIN detectResults : detectResults[k]
       /\ state # "Rejected"
       /\ (state = "Exhausted" => sink = <<EventEntry(1, ScenarioAEvent)>>)

\* The scan of the history : 1673:42;ls -la ended with its EventData emitted.
C9_Witness ==
  /\ plugin = "zsh"
  /\ text = ZSH_SPACED
  /\ state = "Exhausted"
  /\ sink = <<EventEntry(1, ScenarioAEvent)>>

\* The month names of the month table.
MonthNames == {kv[1] : kv \in MONTH_DICT}

\* C10: a time tuple whose month name is no key of the month table, in any
\* case of its letters, makes _ParseTimeElements raise a ParseError: the unit
\* gets a Warning and no EventData, the detector returns false on such a
\* line, and no date-time with month 0 is in the sink.
C10_UnknownMonthFails ==
  plugin = "vsftpd" =>
    /\ (state = "UnitMatched" /\ Lower(structure.date_time.month_string) \notin MonthNames) =>
         ParseTimeElements(structure.date_time).raised
    /\ \A k \in DOMAIN processed :
         LET r == LOG_LINE(lines[processed[k].pos])
         IN (Finished(k) /\ r.ok /\ Lower(r.date_time.month_string) \notin MonthNames) =>
              /\ EventsAt(processed[k].pos) = 0
              /\ WarningsAt(processed[k].pos) = 1
    /\ \A i \in DOMAIN sink :
         sink[i].kind = "event" => sink[i].data.added_time.time_elements_tuple[2] # 0
    /\ (detectResults # <<>> /\ lines # <<>> /\ lines[1] = VS_LINE_XYZ) => ~detectResults[1]

\* A line with the month name Xyz matched the grammar, failed in
\* _ParseTimeElements and got its Warning.
C10_Witness ==
  /\ plugin = "vsftpd"
  /\ \E k \in DOMAIN processed :
       /\ lines[processed[k].pos] = VS_LINE_XYZ
       /\ processed[k].matched
       /\ WarningsAt(processed[k].pos) = 1
       /\ EventsAt(processed[k].pos) = 0

\* The month number the month table gives a month name, in any case of its
\* letters.
MonthNumber(name) == (CHOOSE kv \in MONTH_DICT : kv[1] = Lower(name))[2]

\* The tuple of a date and time group whose month name is in the month table.
TupleOf(g) ==
  <<g.year, MonthNumber(g.month_string), g.day_of_month, g.hours, g.minutes,
    g.seconds>>

\* C11: for a time tuple whose month name is in the month table and whose
\* fields are valid, _ParseTimeElements returns the date and time with the
\* fields (year, month of the table, day, hours, minutes, seconds) and the
\* local-time flag true; "Jun" gives month 6 and "DEC" month 12; the
\* added_time of every vsftpd EventData in the sink has the local-time flag
\* true and the fields of its line.
C11_KnownMonthLocalTime ==
  plugin = "vsftpd" =>
    /\ (state = "UnitMatched"
          /\ Lower(structure.date_time.month_string) \in MonthNames
          /\ ValidTimeElements(TupleOf(structure.date_time))) =>
         LET r == ParseTimeElements(structure.date_time)
         IN /\ ~r.raised
            /\ r.value.time_elements_tuple = TupleOf(structure.date_time)
            /\ r.value.is_local_time = TRUE
    /\ \A i \in DOMAIN sink :
         sink[i].kind = "event" =>
           LET added_time == sink[i].data.added_time
               line == lines[sink[i].pos]
           IN /\ added_time.is_local_time = TRUE
              /\ added_time.time_elements_tuple[2] \in 1..12
              /\ (line = VS_LINE_JUN =>
                    added_time.time_elements_tuple = <<2016, 6, 6, 18, 43, 28>>)
              /\ (line = VS_LINE_DEC =>
                    added_time.time_elements_tuple = <<2019, 12, 31, 23, 59, 59>>)

\* Scenario D: the line of Jun 6 2016 18:43:28 was read and its EventData,
\* with month 6 and the local-time flag, is in the sink.
C11_Witness ==
  /\ plugin = "vsftpd"
  /\ \E i \in DOMAIN sink :
       /\ sink[i].kind = "event"
       /\ lines[sink[i].pos] = VS_LINE_JUN
       /\ sink[i].data.added_time.time_elements_tuple = <<2016, 6, 6, 18, 43, 28>>
       /\ sink[i].data.added_time.is_local_time = TRUE

\* The month name the month table holds for a month number.
MonthNameOf(m) == (CHOOSE kv \in MONTH_DICT : kv[2] = m)[1]

\* A timestamp converted back to the encoding of its artifact: the epoch
\* seconds of a PosixTime, the epoch milliseconds of a JavaTime, the calendar
\* tuple with the month by name of a TimeElements; None for no timestamp.
OriginalEncoding(ts) ==
  CASE ts.type = "PosixTime" -> IntValue(ts.timestamp)
    [] ts.type = "JavaTime" -> IntValue(ts.timestamp)
    [] ts.type = "TimeElements" ->
         [type |-> "tuple",
          year |-> ts.time_elements_tuple[1],
          month_string |-> MonthNameOf(ts.time_elements_tuple[2]),
          day_of_month |-> ts.time_elements_tuple[3],
          hours |-> ts.time_elements_tuple[4],
          minutes |-> ts.time_elements_tuple[5],
          seconds |-> ts.time_elements_tuple[6]]
    [] OTHER -> None

\* The time value a unit holds, in the encoding of its artifact: the digits
\* after the first colon of a zsh record, the date and time of a vsftpd line
\* with the month name in lower case, the lastmod of a downloads row.
OriginalTimeValue(pos) ==
  CASE plugin = "zsh" -> IntValue(LINE_GRAMMAR(text, pos).timestamp)
    [] plugin = "vsftpd" ->
         LET g == LOG_LINE(lines[pos]).date_time
         IN [type |-> "tuple", year |-> g.year,
             month_string |-> Lower(g.month_string),
             day_of_month |-> g.day_of_month, hours |-> g.hours,
             minutes |-> g.minutes, seconds |-> g.seconds]
    [] plugin = "android" -> rows[pos]["lastmod"]

\* Whether the unit at pos is well formed: a text unit that got its
\* EventData, a downloads row whose lastmod is a number of milliseconds.
WellFormedUnit(pos) ==
  IF plugin = "android" THEN rows[pos]["lastmod"].type = "int" ELSE TRUE

\* C12: the timestamp of the EventData of every well-formed unit, converted
\* back to the encoding of its artifact, is the time value the unit holds: the
\* epoch seconds of the zsh record (1673 for : 1673:42;ls -la), the calendar
\* tuple of the vsftpd line, the epoch milliseconds of the row's lastmod.
C12_TimeRoundTrip ==
  \A i \in DOMAIN sink :
    (sink[i].kind = "event" /\ WellFormedUnit(sink[i].pos)) =>
      /\ OriginalEncoding(TimestampOf(sink[i].data)) = OriginalTimeValue(sink[i].pos)
      /\ (plugin = "zsh" /\ OccursAt(text, sink[i].pos, ZSH_SPACED) =>
            OriginalEncoding(TimestampOf(sink[i].data)) = IntValue(1673))

\* Whether the first call of the detector accepted the source.
Accepted == detectResults # <<>> /\ detectResults[1]

\* C13: on every source the detector accepted, the grammar applied to the
\* first unit succeeds and its time value normalizes: the first line of an
\* accepted vsftpd log is parsed by _LOG_LINE and _ParseTimeElements returns
\* for it, the first record of an accepted zsh history matches _LINE_GRAMMAR,
\* and the sink holds no Warning for the first unit.
C13_AcceptedFirstUnitParses ==
  Accepted =>
    /\ (plugin = "vsftpd" =>
          /\ lines # <<>>
          /\ LOG_LINE(lines[1]).ok
          /\ ~ParseTimeElements(LOG_LINE(lines[1]).date_time).raised)
    /\ (plugin = "zsh" =>
          \A k \in DOMAIN processed : processed[k].pos = 1 => processed[k].matched)
    /\ (plugin \in {"zsh", "vsftpd"} => WarningsAt(1) = 0)

\* The first lines of the samples that are no vsftpd log line: the empty
\* line, a line that does not decode, a line without the markers, a line the
\* grammar rejects, a line with an invalid date.
MalformedFirstLine(line) ==
  line \in {<<>>, VS_LINE_UNDECODABLE, VS_LINE_PLAIN, VS_LINE_SHORT, VS_LINE_XYZ,
            VS_LINE_DAY32}

\* C14: on a source that can be read the detector returns and never raises,
\* and it returns false on an empty first line, on one that does not decode,
\* on one without the marker " [pid " or ": Client ", on one the grammar
\* rejects and on one with an invalid date; the zsh detector returns false on
\* a text that does not start with a record; only the error of a source
\* that cannot be read reaches the caller.
C14_DetectorNeverRaises ==
  /\ (escaped # <<>> => (plugin = "vsftpd" /\ ~readable /\ escaped = <<"OSError">>))
  /\ (readable => state # "Failed")
  /\ (plugin = "vsftpd" /\ detectResults # <<>> /\ MalformedFirstLine(ReadLineOfText(lines, 1))) =>
       detectResults[1] = FALSE
  /\ (plugin = "zsh" /\ detectResults # <<>> /\ ~RecordStartAt(text, 1)) =>
       detectResults[1] = FALSE

\* The detector was called on a log whose first line does not decode and
\* returned false; nothing reached the caller.
C14_Witness ==
  /\ plugin = "vsftpd"
  /\ readable
  /\ lines # <<>>
  /\ lines[1] = VS_LINE_UNDECODABLE
  /\ detectResults = <<FALSE>>
  /\ state = "Rejected"
  /\ escaped = <<>>

\* The messages of the ParseError the record handlers raise or pass on.
ParseErrorMessages ==
  {"Unable to parse record, unknown structure", "Unable to parse time elements"}

\* C15: whatever structure key the record handler of a matched unit is called
\* with, and whatever its time fields are, no error of the handler reaches the
\* caller of the scan; the unit ends with one entry in the sink, an EventData or
\* the Warning of its ParseError, the handler called with a key it does not
\* know leaves a Warning, and the scan goes on and ends only at the end of the
\* data.
C15_ParseErrorStaysInScanner ==
  /\ \A i \in DOMAIN escaped : escaped[i] = "OSError"
  /\ (state = "Failed" => (processed = <<>> /\ sink = <<>>))
  /\ (plugin \in {"zsh", "vsftpd"} =>
        \A k \in DOMAIN processed :
          (Finished(k) /\ processed[k].matched) =>
            /\ EventsAt(processed[k].pos) + WarningsAt(processed[k].pos) = 1
            /\ \A i \in EntriesAt("warning", processed[k].pos) :
                 sink[i].reason \in ParseErrorMessages)
  /\ (state = "UnitMatched" =>
        \A key \in StructureKeySamples :
          LET r == IF plugin = "zsh"
                   THEN ZshParseRecord(sink, unit, key, structure)
                   ELSE VsftpdParseRecord(sink, unit, key, structure)
              known == IF plugin = "zsh" THEN ZSH_SUPPORTED_KEYS
                       ELSE VSFTPD_SUPPORTED_KEYS
          IN /\ ~Escapes(r)
             /\ (key \notin known =>
                   /\ WarningEntry(unit, "unable to parse record",
                                   "Unable to parse record, unknown structure")
                        = AfterHandler(r, unit)[Len(sink) + 1]
                   /\ Len(AfterHandler(r, unit)) = Len(sink) + 1))
  /\ (state = "Exhausted" => EndOfData)

\* A scan ended in which a handler was called with a key it does not know,
\* its ParseError became a Warning, and a later unit got its EventData.
C15_Witness ==
  /\ state = "Exhausted"
  /\ escaped = <<>>
  /\ \E i, j \in DOMAIN sink :
       /\ i < j
       /\ sink[i].kind = "warning"
       /\ sink[i].reason = "Unable to parse record, unknown structure"
       /\ sink[j].kind = "event"

\* Whether the scanner read every unit of the input: every line of the log,
\* every row of the query, the text of the history from its first record to
\* its end.
EveryUnitRead ==
  CASE plugin = "vsftpd" -> ProcessedPositions = 1..Len(lines)
    [] plugin = "android" -> ProcessedPositions = 1..Len(rows)
    [] plugin = "zsh" -> /\ EndOfData
                         /\ (processed # <<>> => processed[1].pos = 1)

\* C16, termination: a scan that started reaches Exhausted, whatever units
\* match and fail.
C16_ScanReachesExhausted == (state = "Idle") ~> (state = "Exhausted")

\* C16, terminal state: no step leaves Exhausted, and the sink stays as it
\* is.
C16_ExhaustedIsTerminal ==
  [][state = "Exhausted" => (state' = "Exhausted" /\ sink' = sink)]_vars

\* C16: under fair scheduling every scan that started reaches Exhausted, it
\* has then read every unit of the input, failing units included, and once
\* Exhausted the scanner takes no step and the sink receives nothing more.
C16_ScanTerminatesAfterEveryUnit ==
  /\ C16_ScanReachesExhausted
  /\ [](state = "Exhausted" => EveryUnitRead)
  /\ C16_ExhaustedIsTerminal

\* The position after the semicolon that ends the header of the record that
\* starts at pos.
HeaderEnd(pos) ==
  (CHOOSE j \in pos..Len(text) :
     text[j] = ";" /\ \A k \in pos..(j - 1) : text[k] # ";") + 1

\* Whether a new record starts after position j, or the input ends there: a
\* line break followed by a colon, one whitespace, digits, a colon, digits and
\* a semicolon, or the end of the text.
RecordBoundary(j) ==
  \/ j = Len(text) + 1
  \/ (j <= Len(text) /\ text[j] = NL /\ RecordStartAt(text, j + 1))

\* The first record boundary at or after position c.
FirstBoundary(c) ==
  CHOOSE j \in c..(Len(text) + 1) :
    RecordBoundary(j) /\ \A k \in c..(j - 1) : ~RecordBoundary(k)

\* C17: the command of every zsh record is the input from after the
\* semicolon of its header up to, not including, the first record boundary
\* that follows or the end of the input, line breaks that start no record
\* included; the next record the scanner reads starts right after that
\* boundary, and at the end of the scan the records read cover the text.
C17_CommandUpToNextRecord ==
  plugin = "zsh" =>
    /\ \A i \in DOMAIN sink :
         sink[i].kind = "event" =>
           sink[i].data.command =
             Slice(text, HeaderEnd(sink[i].pos), FirstBoundary(HeaderEnd(sink[i].pos)) - 1)
    /\ \A k \in DOMAIN processed :
         (processed[k].matched /\ k < Len(processed)) =>
           processed[k + 1].pos = FirstBoundary(HeaderEnd(processed[k].pos)) + 1
    /\ (state = "Exhausted" /\ processed # <<>> =>
          /\ processed[1].pos = 1
          /\ processed[Len(processed)].matched =>
               FirstBoundary(HeaderEnd(processed[Len(processed)].pos)) = Len(text) + 1)

\* C18: the one query of QUERIES selects from table downloads exactly the
\* columns REQUIRED_STRUCTURE requires of it, and the table downloads of
\* SCHEMAS has them all; so in every scan, which runs only after the schema
\* check passed, the table has every column the query names, every row read
\* holds a value or NULL for each of them, and the row gets its entry in the
\* sink with no error at the caller.
C18_DeclarationsConsistent ==
  /\ Len(QUERIES) = 1
  /\ QUERIES[1].table \in DOMAIN REQUIRED_STRUCTURE
  /\ QueryColumns = REQUIRED_STRUCTURE[QUERIES[1].table]
  /\ \A k \in DOMAIN SCHEMAS : QueryColumns \subseteq SCHEMAS[k][QUERIES[1].table]
  /\ (plugin = "android" /\ state \in ScanUnderWay \cup {"Exhausted", "Failed"}) =>
       /\ QueryColumns \subseteq catalog[QUERIES[1].table]
       /\ \A k \in DOMAIN processed :
            /\ QueryColumns \subseteq DOMAIN rows[processed[k].pos]
            /\ EventsAt(processed[k].pos) + WarningsAt(processed[k].pos) = 1
       /\ state # "Failed"
       /\ escaped = <<>>

\* A database whose table downloads has the required columns and no other
\* passed the schema check, and the scan of its rows ended.
C18_Witness ==
  /\ plugin = "android"
  /\ catalog = [downloads |-> REQUIRED_STRUCTURE.downloads]
  /\ state = "Exhausted"
  /\ Len(processed) = Len(rows)
  /\ rows # <<>>

=============================================================================
